---- MODULE Spec2Model ----
\* Model of the native payment flow of src/payment-flows/native/native.js:
\* the module-level cleanup registry `clean`, the flow instances created by
\* initNative, their click futures and the callbacks wired to the native popup
\* and to the native connection.
EXTENDS Integers, Sequences, FiniteSets, TLC

\* ---------------------------------------------------------------- bounds
MaxInst   == 2   \* successful initNative calls
MaxRes    == 3   \* popups, connections, checkout instances, QR components
MaxClicks == 2   \* click() calls over all instances
MaxCalls  == 2   \* invocations of the user handlers over all instances
MaxTimers == 1   \* close grace delays pending at once
MaxSteps  == 5   \* operations and events of a run
MaxShipCalls == 1  \* shipping-change messages of a run
MaxShipActs  == 3  \* resolve/reject invocations of one shipping-change handler

Insts  == 1..MaxInst
Errors == {"E1", "E2"}
NoErr  == "none"

VARIABLES
    isAndroid,    \* result of isAndroidChrome() in this browser
    clean,        \* module-level `clean`: 0 is undefined, k the registry made by the k-th initNative
    nInst,        \* number of flow instances created so far
    venmo,        \* isVenmoDesktopPay of each instance
    approved, cancelled, didFallback,
    destroyMemo,  \* memoized destroy of each instance: "none", "running", "done"
    tasks,        \* tasks of each registry, a sequence of resource ids
    cleaned,      \* cleaned flag of each registry
    res,          \* every handle created so far
    clicks,       \* every click() future
    timers,       \* close grace delays of each instance: pending, elapsed as a cancel, elapsed ignored
    onCancelCount,\* invocations of the user cancel handler
    onErrorArgs,  \* arguments of the invocations of the user error handler
    ap,           \* approve callback futures of each instance: waiting for the handler,
                  \* waiting for destroy, resolved, rejected; the handler's rejection reasons
    cb,           \* cancel and error callback futures of each instance: waiting for the
                  \* handler, waiting for destroy, resolved, rejected
    ship,         \* whether props.onShippingChange is supplied, and the shipping-change
                  \* callback calls: state, the call's `resolved`, what it reported
    initThrows,   \* initNative calls that threw
    steps         \* operations and events of the run so far

vars == <<isAndroid, clean, nInst, venmo, approved, cancelled, didFallback,
          destroyMemo, tasks, cleaned, res, clicks, timers, onCancelCount,
          onErrorArgs, ap, cb, ship, initThrows, steps>>

flagVars    == <<approved, cancelled, didFallback>>
regVars     == <<tasks, cleaned, res, destroyMemo>>
handlerVars == <<onCancelCount, onErrorArgs, ap, cb>>

\* Every operation and every event is one step of the bounded run.
Tick == steps < MaxSteps /\ steps' = steps + 1

RECURSIVE Sum(_, _)
Sum(f, S) == IF S = {} THEN 0 ELSE LET x == CHOOSE y \in S : TRUE IN f[x] + Sum(f, S \ {x})

\* ---------------------------------------------------- cleanup registry
\* A teardown action (connection.cancel, nativePopup.cancel, instance.close)
\* releases its handle.
RunTask(rs, r) == [rs EXCEPT ![r].open = FALSE, ![r].runs = @ + 1]

RECURSIVE RunTasks(_, _)
RunTasks(rs, seq) ==
    IF seq = <<>> THEN rs ELSE RunTasks(RunTask(rs, Head(seq)), Tail(seq))

\* clean.all(): runs and drops every task of the registry, marks it cleaned.
AllRes(rs, k) == RunTasks(rs, tasks[k])
AllTasks(k) == [tasks EXCEPT ![k] = <<>>]
AllCleaned(k) == [cleaned EXCEPT ![k] = TRUE]

\* clean.register(method) for the handle r about to be appended to rs: a cleaned
\* registry runs the method at once, otherwise it is queued.
NewRes(kind, i, fb, win) ==
    [kind |-> kind, owner |-> i, open |-> TRUE, runs |-> 0, reg |-> 0,
     nativeFallback |-> fb, win |-> win]

RegisterRes(rs, new) ==
    LET r == Len(rs) + 1
        queued == Append(rs, [new EXCEPT !.reg = clean])
    IN IF cleaned[clean] THEN RunTask(queued, r) ELSE queued

RegisterTasks(rs) ==
    IF cleaned[clean] THEN tasks ELSE [tasks EXCEPT ![clean] = Append(@, Len(rs) + 1)]

\* destroy = memoize(() => clean.all()): the first call runs clean.all() on the
\* registry `clean` names at that moment; later calls return the first result.
DestroyRes(i) == IF destroyMemo[i] = "none" THEN AllRes(res, clean) ELSE res
\* destroy that runs the tasks but leaves them queued in the registry.
DestroyTasksKept(i) == tasks

DestroyTasks(i) == IF destroyMemo[i] = "none" THEN AllTasks(clean) ELSE tasks
DestroyCleaned(i) == IF destroyMemo[i] = "none" THEN AllCleaned(clean) ELSE cleaned
DestroyMemoOf(i, sync) ==
    IF destroyMemo[i] = "none" THEN (IF sync THEN "done" ELSE "running") ELSE destroyMemo[i]
DestroyMemo(i, sync) == [destroyMemo EXCEPT ![i] = DestroyMemoOf(i, sync)]

destroy(i, sync) ==
    /\ res' = DestroyRes(i)
    /\ tasks' = DestroyTasks(i)
    /\ cleaned' = DestroyCleaned(i)
    /\ destroyMemo' = DestroyMemo(i, sync)

\* ------------------------------------------------------------------ init
Init ==
    /\ isAndroid \in BOOLEAN
    /\ clean = 0
    /\ nInst = 0
    /\ venmo = [i \in Insts |-> FALSE]
    /\ approved = [i \in Insts |-> FALSE]
    /\ cancelled = [i \in Insts |-> FALSE]
    /\ didFallback = [i \in Insts |-> FALSE]
    /\ destroyMemo = [i \in Insts |-> "none"]
    /\ tasks = [i \in Insts |-> <<>>]
    /\ cleaned = [i \in Insts |-> FALSE]
    /\ res = <<>>
    /\ clicks = <<>>
    /\ timers = [i \in Insts |-> [pending |-> 0, asCancel |-> 0, ignored |-> 0]]
    /\ onCancelCount = [i \in Insts |-> 0]
    /\ onErrorArgs = [i \in Insts |-> <<>>]
    /\ ap = [i \in Insts |-> [handler |-> 0, wait |-> 0, resolved |-> 0, rejected |-> 0,
                               reasons |-> <<>>]]
    /\ cb = [i \in Insts |-> [k \in {"cancel", "error"} |->
                [handler |-> 0, wait |-> 0, resolved |-> 0, rejected |-> 0]]]
    /\ ship = [handler |-> FALSE, calls |-> <<>>]
    /\ initThrows = 0
    /\ steps = 0

\* ------------------------------------------------------------ initNative
\* initNative that tests config.firebase only after tearing the prior
\* registry down.
InitNativeThrowAfterTeardown ==
    /\ res' = IF clean # 0 THEN AllRes(res, clean) ELSE res
    /\ tasks' = IF clean # 0 THEN AllTasks(clean) ELSE tasks
    /\ cleaned' = IF clean # 0 THEN AllCleaned(clean) ELSE cleaned
    /\ initThrows' = initThrows + 1
    /\ Tick
    /\ UNCHANGED <<isAndroid, ship, clean, nInst, venmo, flagVars, destroyMemo, clicks,
                   timers, handlerVars>>

\* initNative without config.firebase throws before it touches `clean`.
InitNativeThrow ==
    /\ initThrows' = initThrows + 1
    /\ Tick
    /\ UNCHANGED <<isAndroid, ship, clean, nInst, venmo, flagVars, regVars, clicks,
                   timers, handlerVars>>

\* initNative with a firebase config: clean.all() on the prior registry, then
\* clean = cleanup() and a fresh closure with its three flags false.
InitNative(v) ==
    /\ nInst < MaxInst
    /\ LET k == nInst + 1 IN
        /\ res' = IF clean # 0 THEN AllRes(res, clean) ELSE res
        /\ tasks' = IF clean # 0 THEN AllTasks(clean) ELSE tasks
        /\ cleaned' = IF clean # 0 THEN AllCleaned(clean) ELSE cleaned
        /\ clean' = k
        /\ nInst' = k
        /\ venmo' = [venmo EXCEPT ![k] = v]
        /\ UNCHANGED initThrows
    /\ Tick
    /\ UNCHANGED <<isAndroid, ship, flagVars, destroyMemo, clicks, timers, handlerVars>>

\* ----------------------------------------------------------------- click
\* A catch handler that rethrows without waiting for destroy().
AfterCatchNoWait(i, memo) == "rejected"

\* State of a click future once its catch handler has called destroy(): the
\* rethrow waits for the destroy future.
AfterCatch(i, memo) == IF memo[i] = "done" THEN "rejected" ELSE "failing"

\* A click future: err is what it rejects with, raised the error its path
\* threw or was rejected with, popup the popup it opened, br the detection
\* branches not settled yet.
NewClick(i, st, err, popup) ==
    [inst |-> i, st |-> st, err |-> err, raised |-> err, popup |-> popup, br |-> <<>>]

\* click() on the QR path (isVenmoDesktopPay): initQRCode renders the QR
\* component, then building the callbacks of connectNative evaluates
\* onApproveQR.then, which is undefined on a function: a TypeError is thrown
\* before connectNative runs. click's catch calls destroy() and rethrows.
ClickQR(i, sync) ==
    /\ i <= nInst /\ venmo[i]
    /\ Len(clicks) < MaxClicks /\ Len(res) < MaxRes
    /\ res' = Append(DestroyRes(i), NewRes("qr", i, FALSE, FALSE))
    /\ tasks' = DestroyTasks(i)
    /\ cleaned' = DestroyCleaned(i)
    /\ destroyMemo' = DestroyMemo(i, sync)
    /\ clicks' = Append(clicks, NewClick(i, AfterCatch(i, destroyMemo'), "TypeError", 0))
    /\ Tick
    /\ UNCHANGED <<isAndroid, ship, initThrows, clean, nInst, venmo, flagVars, timers, handlerVars>>

\* click() on the popup path: openNativePopup returns the popup, whose cancel
\* is registered; the future stays pending until a detection branch settles it.
ClickPopup(i) ==
    /\ i <= nInst /\ ~venmo[i]
    /\ Len(clicks) < MaxClicks /\ Len(res) < MaxRes
    /\ res' = RegisterRes(res, NewRes("popup", i, FALSE, FALSE))
    /\ tasks' = RegisterTasks(res)
    /\ clicks' = Append(clicks, NewClick(i, "pending", NoErr, Len(res) + 1))
    /\ Tick
    /\ UNCHANGED <<isAndroid, ship, initThrows, clean, nInst, venmo, flagVars, cleaned, destroyMemo,
                   timers, handlerVars>>

\* click() on the popup path when openNativePopup throws: the promise
\* constructor rejects, click's catch calls destroy() and rethrows.
ClickPopupThrow(i, e, sync) ==
    /\ i <= nInst /\ ~venmo[i]
    /\ Len(clicks) < MaxClicks
    /\ destroy(i, sync)
    /\ clicks' = Append(clicks, NewClick(i, AfterCatch(i, destroyMemo'), e, 0))
    /\ Tick
    /\ UNCHANGED <<isAndroid, ship, initThrows, clean, nInst, venmo, flagVars, timers, handlerVars>>

\* The destroy future of instance i resolves: every click waiting in its catch
\* handler rethrows, every callback future waiting on it resolves.
DestroyComplete(i) ==
    /\ i <= nInst /\ destroyMemo[i] = "running"
    /\ destroyMemo' = [destroyMemo EXCEPT ![i] = "done"]
    /\ clicks' = [c \in DOMAIN clicks |->
                    IF clicks[c].inst = i /\ clicks[c].st = "failing"
                    THEN [clicks[c] EXCEPT !.st = "rejected"] ELSE clicks[c]]
    /\ ap' = [ap EXCEPT ![i].resolved = @ + ap[i].wait, ![i].wait = 0]
    /\ cb' = [cb EXCEPT ![i] = [k \in {"cancel", "error"} |->
                [cb[i][k] EXCEPT !.resolved = @ + cb[i][k].wait, !.wait = 0]]]
    /\ Tick
    /\ UNCHANGED <<isAndroid, ship, initThrows, clean, nInst, venmo, flagVars, tasks, cleaned, res,
                   timers, onCancelCount, onErrorArgs>>

\* ------------------------------------------------- fallbackToWebCheckout
\* didFallback = true; checkout.init with win: fallbackWin and
\* isNativeFallback: true; its close is registered in the registry `clean`
\* names now; instance.start() is returned.
fallbackToWebCheckout(i, win) ==
    /\ Len(res) < MaxRes
    /\ didFallback' = [didFallback EXCEPT ![i] = TRUE]
    /\ res' = RegisterRes(res, NewRes("checkout", i, TRUE, win))
    /\ tasks' = RegisterTasks(res)
    /\ UNCHANGED <<cleaned, destroyMemo>>

\* ------------------------------------------------------ popup detections
PopupOpened(c) == c \in DOMAIN clicks /\ clicks[c].popup # 0
HasPopup(i) == i <= nInst /\ \E c \in DOMAIN clicks : clicks[c].inst = i /\ clicks[c].popup # 0

\* onDetectWebSwitch of the popup of click c:
\* detectWebSwitch({ win }).then(resolve, reject).
DetectWebSwitch(c) ==
    /\ PopupOpened(c)
    /\ fallbackToWebCheckout(clicks[c].inst, TRUE)
    /\ clicks' = [clicks EXCEPT ![c].br = Append(@, "web")]
    /\ Tick
    /\ UNCHANGED <<isAndroid, ship, initThrows, clean, nInst, venmo, approved, cancelled, timers, handlerVars>>

\* An app-switch detection that opens the connection and registers nothing.
DetectAppSwitchUnregistered(c) ==
    /\ PopupOpened(c)
    /\ Len(res) < MaxRes
    /\ res' = Append(res, NewRes("connection", clicks[c].inst, FALSE, FALSE))
    /\ clicks' = [clicks EXCEPT ![c].br = Append(@, "app")]
    /\ Tick
    /\ UNCHANGED <<isAndroid, ship, initThrows, clean, nInst, venmo, flagVars, tasks, cleaned, destroyMemo,
                   timers, handlerVars>>

\* onDetectAppSwitch of the popup of click c: connectNative opens a connection,
\* its cancel is registered, connection.setProps().then(resolve, reject).
DetectAppSwitch(c) ==
    /\ PopupOpened(c)
    /\ Len(res) < MaxRes
    /\ res' = RegisterRes(res, NewRes("connection", clicks[c].inst, FALSE, FALSE))
    /\ tasks' = RegisterTasks(res)
    /\ clicks' = [clicks EXCEPT ![c].br = Append(@, "app")]
    /\ Tick
    /\ UNCHANGED <<isAndroid, ship, initThrows, clean, nInst, venmo, flagVars, cleaned, destroyMemo,
                   timers, handlerVars>>

RemoveAt(seq, n) == [k \in 1..(Len(seq) - 1) |-> IF k < n THEN seq[k] ELSE seq[k + 1]]

\* A detection branch of click c resolves: resolve() settles a pending click.
BranchResolve(c, n) ==
    /\ c \in DOMAIN clicks /\ n \in DOMAIN clicks[c].br
    /\ clicks' = [clicks EXCEPT ![c].br = RemoveAt(@, n),
                                ![c].st = IF @ = "pending" THEN "resolved" ELSE @]
    /\ Tick
    /\ UNCHANGED <<isAndroid, ship, initThrows, clean, nInst, venmo, flagVars, regVars, timers, handlerVars>>

\* A detection branch of click c rejects with e: reject() rejects a pending
\* click, whose catch calls destroy() and rethrows; a settled click ignores it.
BranchReject(c, n, e, sync) ==
    /\ c \in DOMAIN clicks /\ n \in DOMAIN clicks[c].br
    /\ LET i == clicks[c].inst IN
        IF clicks[c].st = "pending"
        THEN /\ destroy(i, sync)
             /\ clicks' = [clicks EXCEPT ![c].br = RemoveAt(@, n),
                                         ![c].st = AfterCatch(i, destroyMemo'),
                                         ![c].err = e,
                                         ![c].raised = e]
        ELSE /\ clicks' = [clicks EXCEPT ![c].br = RemoveAt(@, n)]
             /\ UNCHANGED regVars
    /\ Tick
    /\ UNCHANGED <<isAndroid, ship, initThrows, clean, nInst, venmo, flagVars, timers, handlerVars>>

\* ------------------------------------------------------ outcome callbacks
ApproveCalls(i) == ap[i].handler + ap[i].wait + ap[i].resolved + ap[i].rejected

\* Bound on the handler invocations of a run.
CallsLeft ==
    Sum([i \in Insts |-> onCancelCount[i] + Len(onErrorArgs[i]) + ApproveCalls(i)], Insts) < MaxCalls

\* onApproveCallback: approved = true, the user onApprove handler is called and
\* destroy() with it; the future waits for both.
onApproveCallback(i, sync) ==
    /\ HasPopup(i)
    /\ CallsLeft
    /\ approved' = [approved EXCEPT ![i] = TRUE]
    /\ destroy(i, sync)
    /\ ap' = [ap EXCEPT ![i].handler = @ + 1]
    /\ Tick
    /\ UNCHANGED <<isAndroid, ship, initThrows, clean, nInst, venmo, cancelled, didFallback, clicks,
                   timers, onCancelCount, onErrorArgs, cb>>

\* A callback future that resolves as soon as the handler's promise has.
ApSettledNoWait(i, a) == [a EXCEPT !.handler = @ - 1, !.resolved = @ + 1]

\* State of a callback future once the handler's promise (for approve, with
\* its catch) has resolved: ZalgoPromise.all still waits for destroy().
ApSettled(i, a) ==
    IF destroyMemo[i] = "done"
    THEN [a EXCEPT !.handler = @ - 1, !.resolved = @ + 1]
    ELSE [a EXCEPT !.handler = @ - 1, !.wait = @ + 1]

\* The user onApprove handler resolves.
ApproveHandlerResolve(i) ==
    /\ i <= nInst /\ ap[i].handler > 0
    /\ ap' = [ap EXCEPT ![i] = ApSettled(i, @)]
    /\ Tick
    /\ UNCHANGED <<isAndroid, ship, initThrows, clean, nInst, venmo, flagVars, regVars, clicks, timers,
                   onCancelCount, onErrorArgs, cb>>

\* A catch that reports a fixed error in place of the rejection reason.
ApproveErrorArgFixed(e) == [wrapped |-> FALSE, v |-> "E1"]

\* What the catch of onApproveCallback hands to onError: the rejection reason.
ApproveErrorArg(e) == [wrapped |-> FALSE, v |-> e]

\* The user onApprove handler rejects with e: the catch calls onError(err) and
\* returns nothing, so the caught promise resolves.
ApproveHandlerReject(i, e) ==
    /\ i <= nInst /\ ap[i].handler > 0
    /\ CallsLeft
    /\ onErrorArgs' = [onErrorArgs EXCEPT ![i] = Append(@, ApproveErrorArg(e))]
    /\ ap' = [ap EXCEPT ![i] = [ApSettled(i, @) EXCEPT !.reasons = Append(@, e)]]
    /\ Tick
    /\ UNCHANGED <<isAndroid, ship, initThrows, clean, nInst, venmo, flagVars, regVars, clicks, timers,
                   onCancelCount, cb>>

\* actions.restart() handed to the user onApprove handler.
Restart(i) ==
    /\ i <= nInst /\ ApproveCalls(i) > 0
    /\ fallbackToWebCheckout(i, FALSE)
    /\ Tick
    /\ UNCHANGED <<isAndroid, ship, initThrows, clean, nInst, venmo, approved, cancelled, clicks, timers,
                   handlerVars>>

\* onCancelCallback: cancelled = true, onCancel() and destroy(); the future
\* waits for both.
onCancelCallback(i, sync) ==
    /\ HasPopup(i)
    /\ CallsLeft
    /\ cancelled' = [cancelled EXCEPT ![i] = TRUE]
    /\ onCancelCount' = [onCancelCount EXCEPT ![i] = @ + 1]
    /\ destroy(i, sync)
    /\ cb' = [cb EXCEPT ![i].cancel.handler = @ + 1]
    /\ Tick
    /\ UNCHANGED <<isAndroid, ship, initThrows, clean, nInst, venmo, approved, didFallback, clicks, timers,
                   onErrorArgs, ap>>

\* The promise the user onCancel or onError handler returned resolves.
HandlerResolve(i, k) ==
    /\ i <= nInst /\ cb[i][k].handler > 0
    /\ cb' = [cb EXCEPT ![i][k] = ApSettled(i, @)]
    /\ Tick
    /\ UNCHANGED <<isAndroid, ship, initThrows, clean, nInst, venmo, flagVars, regVars, clicks, timers,
                   onCancelCount, onErrorArgs, ap>>

\* The promise the user onCancel or onError handler returned rejects:
\* ZalgoPromise.all rejects at once, whatever the state of destroy().
HandlerReject(i, k) ==
    /\ i <= nInst /\ cb[i][k].handler > 0
    /\ cb' = [cb EXCEPT ![i][k].handler = @ - 1, ![i][k].rejected = @ + 1]
    /\ Tick
    /\ UNCHANGED <<isAndroid, ship, initThrows, clean, nInst, venmo, flagVars, regVars, clicks, timers,
                   onCancelCount, onErrorArgs, ap>>

\* new Error(message)
NewError(message) == [wrapped |-> TRUE, v |-> message]

\* An error callback that reports to onError but leaves the registry alone.
onErrorCallbackNoDestroy(i, e, sync) ==
    /\ HasPopup(i)
    /\ CallsLeft
    /\ onErrorArgs' = [onErrorArgs EXCEPT ![i] = Append(@, NewError(e))]
    /\ cb' = [cb EXCEPT ![i].error.handler = @ + 1]
    /\ Tick
    /\ UNCHANGED <<isAndroid, ship, initThrows, clean, nInst, venmo, flagVars, regVars, clicks, timers,
                   onCancelCount, ap>>

\* onErrorCallback: onError(new Error(message)) and destroy(); no flag is set;
\* the future waits for both.
onErrorCallback(i, e, sync) ==
    /\ HasPopup(i)
    /\ CallsLeft
    /\ onErrorArgs' = [onErrorArgs EXCEPT ![i] = Append(@, NewError(e))]
    /\ destroy(i, sync)
    /\ cb' = [cb EXCEPT ![i].error.handler = @ + 1]
    /\ Tick
    /\ UNCHANGED <<isAndroid, ship, initThrows, clean, nInst, venmo, flagVars, clicks, timers,
                   onCancelCount, ap>>

\* onFallbackCallback: fallbackToWebCheckout().
onFallbackCallback(i) ==
    /\ HasPopup(i)
    /\ fallbackToWebCheckout(i, FALSE)
    /\ Tick
    /\ UNCHANGED <<isAndroid, ship, initThrows, clean, nInst, venmo, approved, cancelled, clicks, timers,
                   handlerVars>>

\* onCloseCallback: starts the 1000ms grace delay.
onCloseCallback(i) ==
    /\ HasPopup(i)
    /\ Sum([j \in Insts |-> timers[j].pending], Insts) < MaxTimers
    /\ timers' = [timers EXCEPT ![i].pending = @ + 1]
    /\ Tick
    /\ UNCHANGED <<isAndroid, ship, initThrows, clean, nInst, venmo, flagVars, regVars, clicks, handlerVars>>

\* The close condition with the Android Chrome test inverted.
CloseIsCancelOnAndroid(i) == ~approved[i] /\ ~cancelled[i] /\ ~didFallback[i] /\ isAndroid

\* The close condition without the approved flag.
CloseIsCancelNoApproved(i) == ~cancelled[i] /\ ~didFallback[i] /\ ~isAndroid

\* The condition onCloseCallback tests when its delay has elapsed.
CloseIsCancel(i) == ~approved[i] /\ ~cancelled[i] /\ ~didFallback[i] /\ ~isAndroid

\* The grace delay of a close elapses.
CloseTimerFire(i, sync) ==
    /\ i <= nInst /\ timers[i].pending > 0
    /\ IF CloseIsCancel(i)
       THEN /\ CallsLeft
            /\ timers' = [timers EXCEPT ![i].pending = @ - 1, ![i].asCancel = @ + 1]
            /\ onCancelCount' = [onCancelCount EXCEPT ![i] = @ + 1]
            /\ destroy(i, sync)
       ELSE /\ timers' = [timers EXCEPT ![i].pending = @ - 1, ![i].ignored = @ + 1]
            /\ UNCHANGED <<onCancelCount, regVars>>
    /\ Tick
    /\ UNCHANGED <<isAndroid, ship, initThrows, clean, nInst, venmo, flagVars, clicks, onErrorArgs, ap, cb>>

\* onDestroy of the popup: destroy.
onDestroy(i, sync) ==
    /\ HasPopup(i)
    /\ destroy(i, sync)
    /\ Tick
    /\ UNCHANGED <<isAndroid, ship, initThrows, clean, nInst, venmo, flagVars, clicks, timers, handlerVars>>

\* close() of the flow instance: destroy.
close(i, sync) ==
    /\ i <= nInst
    /\ destroy(i, sync)
    /\ Tick
    /\ UNCHANGED <<isAndroid, ship, initThrows, clean, nInst, venmo, flagVars, clicks, timers, handlerVars>>

Next ==
    \/ InitNativeThrow
    \/ \E v \in BOOLEAN : InitNative(v)
    \/ \E i \in Insts, sync \in BOOLEAN : ClickQR(i, sync)
    \/ \E i \in Insts : ClickPopup(i)
    \/ \E i \in Insts, e \in Errors, sync \in BOOLEAN : ClickPopupThrow(i, e, sync)
    \/ \E i \in Insts : DestroyComplete(i)
    \/ \E c \in 1..MaxClicks : DetectWebSwitch(c)
    \/ \E c \in 1..MaxClicks : DetectAppSwitch(c)
    \/ \E c \in 1..MaxClicks, n \in 1..MaxRes : BranchResolve(c, n)
    \/ \E c \in 1..MaxClicks, n \in 1..MaxRes, e \in Errors, sync \in BOOLEAN :
            BranchReject(c, n, e, sync)
    \/ \E i \in Insts, sync \in BOOLEAN : onApproveCallback(i, sync)
    \/ \E i \in Insts : ApproveHandlerResolve(i)
    \/ \E i \in Insts, e \in Errors : ApproveHandlerReject(i, e)
    \/ \E i \in Insts : Restart(i)
    \/ \E i \in Insts, sync \in BOOLEAN : onCancelCallback(i, sync)
    \/ \E i \in Insts, e \in Errors, sync \in BOOLEAN : onErrorCallback(i, e, sync)
    \/ \E i \in Insts, k \in {"cancel", "error"} : HandlerResolve(i, k)
    \/ \E i \in Insts, k \in {"cancel", "error"} : HandlerReject(i, k)
    \/ \E i \in Insts : onFallbackCallback(i)
    \/ \E i \in Insts : onCloseCallback(i)
    \/ \E i \in Insts, sync \in BOOLEAN : CloseTimerFire(i, sync)
    \/ \E i \in Insts, sync \in BOOLEAN : onDestroy(i, sync)
    \/ \E i \in Insts, sync \in BOOLEAN : close(i, sync)

Spec == Init /\ [][Next]_vars

\* ------------------------------------------------ onShippingChangeCallback
\* The shipping-change callback reads and writes nothing of the session but
\* its own `resolved`, so its calls are followed from the state in which the
\* connection that delivers them has just been opened: initNative, click(),
\* app-switch detection. props.onShippingChange is supplied or not.
InitShipping ==
    /\ isAndroid \in BOOLEAN
    /\ clean = 1
    /\ nInst = 1
    /\ venmo = [i \in Insts |-> FALSE]
    /\ approved = [i \in Insts |-> FALSE]
    /\ cancelled = [i \in Insts |-> FALSE]
    /\ didFallback = [i \in Insts |-> FALSE]
    /\ destroyMemo = [i \in Insts |-> "none"]
    /\ tasks = [i \in Insts |-> IF i = 1 THEN <<1, 2>> ELSE <<>>]
    /\ cleaned = [i \in Insts |-> FALSE]
    /\ res = <<[NewRes("popup", 1, FALSE, FALSE) EXCEPT !.reg = 1],
               [NewRes("connection", 1, FALSE, FALSE) EXCEPT !.reg = 1]>>
    /\ clicks = <<[NewClick(1, "pending", NoErr, 1) EXCEPT !.br = <<"app">>]>>
    /\ timers = [i \in Insts |-> [pending |-> 0, asCancel |-> 0, ignored |-> 0]]
    /\ onCancelCount = [i \in Insts |-> 0]
    /\ onErrorArgs = [i \in Insts |-> <<>>]
    /\ ap = [i \in Insts |-> [handler |-> 0, wait |-> 0, resolved |-> 0, rejected |-> 0,
                               reasons |-> <<>>]]
    /\ cb = [i \in Insts |-> [k \in {"cancel", "error"} |->
                [handler |-> 0, wait |-> 0, resolved |-> 0, rejected |-> 0]]]
    /\ ship \in {[handler |-> h, calls |-> <<>>] : h \in BOOLEAN}
    /\ initThrows = 0
    /\ steps = 3

sessionVars == <<isAndroid, clean, nInst, venmo, approved, cancelled, didFallback,
                 destroyMemo, tasks, cleaned, res, clicks, timers, onCancelCount,
                 onErrorArgs, ap, cb, initThrows, steps>>

ShippingActions == {"resolve", "reject"}

\* A shipping-change call: `resolved` starts true; invoked are the actions
\* the handler called before its promise resolved, late those it called after.
NewShippingCall(handler) ==
    [st |-> IF handler THEN "running" ELSE "reported", resolved |-> TRUE, report |-> TRUE,
     invoked |-> <<>>, late |-> <<>>]

\* onShippingChangeCallback: without a handler { resolved: true } at once;
\* with one, the handler is called with the actions resolve and reject.
onShippingChangeCallback ==
    /\ \E r \in DOMAIN res : res[r].kind = "connection"
    /\ Len(ship.calls) < MaxShipCalls
    /\ ship' = [ship EXCEPT !.calls = Append(@, NewShippingCall(ship.handler))]
    /\ UNCHANGED sessionVars

\* Actions under which a reject is never taken back.
ApplyShippingActionSticky(resolved, a) == resolved /\ a = "resolve"

\* actions.resolve sets resolved = true, actions.reject sets resolved = false.
ApplyShippingAction(resolved, a) == a = "resolve"

\* The handler of call c invokes actions.resolve() or actions.reject().
ShippingAction(c, a) ==
    /\ c \in DOMAIN ship.calls /\ ship.handler
    /\ Len(ship.calls[c].invoked) + Len(ship.calls[c].late) < MaxShipActs
    /\ ship' = [ship EXCEPT
            !.calls[c].resolved = ApplyShippingAction(@, a),
            !.calls[c].invoked = IF ship.calls[c].st = "running" THEN Append(@, a) ELSE @,
            !.calls[c].late = IF ship.calls[c].st = "running" THEN @ ELSE Append(@, a)]
    /\ UNCHANGED sessionVars

\* The promise of the handler of call c resolves: { resolved } is returned.
ShippingHandlerResolve(c) ==
    /\ c \in DOMAIN ship.calls /\ ship.calls[c].st = "running"
    /\ ship' = [ship EXCEPT !.calls[c].st = "reported",
                            !.calls[c].report = ship.calls[c].resolved]
    /\ UNCHANGED sessionVars

\* The promise of the handler of call c rejects: so does the callback's.
ShippingHandlerReject(c) ==
    /\ c \in DOMAIN ship.calls /\ ship.calls[c].st = "running"
    /\ ship' = [ship EXCEPT !.calls[c].st = "rejected"]
    /\ UNCHANGED sessionVars

NextShipping ==
    \/ onShippingChangeCallback
    \/ \E c \in 1..MaxShipCalls, a \in ShippingActions : ShippingAction(c, a)
    \/ \E c \in 1..MaxShipCalls : ShippingHandlerResolve(c)
    \/ \E c \in 1..MaxShipCalls : ShippingHandlerReject(c)

SpecShipping == InitShipping /\ [][NextShipping]_vars

\* ================================================================ claims
Registered(r) == res[r].reg # 0
DestroyInvoked(i) == destroyMemo[i] # "none"

\* C1: every registered teardown action runs at most once in total; the step
\* in which destroy()/close() of an instance is first invoked leaves every
\* action registered before it run exactly once, and since no action ever
\* runs twice a repeated destroy()/close() re-runs nothing.
C1_TeardownOnce ==
    /\ [](\A r \in DOMAIN res : res[r].runs <= 1)
    /\ [][\A i \in Insts :
            (~DestroyInvoked(i) /\ DestroyInvoked(i)')
            => \A r \in DOMAIN res : Registered(r) => res'[r].runs = 1]_vars

\* Two callbacks of one instance have called destroy (error, then cancel) and
\* its registered popup has been torn down once.
C1_Witness ==
    \E i \in Insts :
        /\ DestroyInvoked(i)
        /\ onErrorArgs[i] # <<>> /\ onCancelCount[i] > 0
        /\ \E r \in DOMAIN res : res[r].owner = i /\ Registered(r) /\ res[r].runs = 1

\* C2: when a close grace delay elapses with approved, cancelled and
\* didFallback all false outside Android Chrome, the user cancel handler is
\* invoked exactly once for it and destroy is invoked; a first destroy runs
\* every queued teardown action.
TimerElapses(i) == timers'[i].pending < timers[i].pending

C2_CloseIsImplicitCancel ==
    [][\A i \in Insts :
        (TimerElapses(i) /\ ~approved[i] /\ ~cancelled[i] /\ ~didFallback[i] /\ ~isAndroid)
        => /\ onCancelCount'[i] = onCancelCount[i] + 1
           /\ DestroyInvoked(i)'
           /\ ~DestroyInvoked(i) =>
                /\ tasks'[clean] = <<>> /\ cleaned'[clean]
                /\ \A r \in DOMAIN res : Registered(r) => ~res'[r].open]_vars

\* A close elapsed as a cancel: the cancel handler ran once though no cancel
\* message arrived, and the popup is torn down.
C2_Witness ==
    \E i \in Insts :
        /\ timers[i].asCancel = 1 /\ onCancelCount[i] = 1
        /\ ~approved[i] /\ ~cancelled[i] /\ ~didFallback[i] /\ ~isAndroid
        /\ DestroyInvoked(i)
        /\ \E r \in DOMAIN res : res[r].kind = "popup" /\ res[r].owner = i /\ ~res[r].open

\* C3: when a close grace delay elapses while approved, cancelled or
\* didFallback is true, or on Android Chrome, the close callback invokes
\* neither the user cancel handler nor destroy: handler count, registries,
\* handles and the memoized destroy are unchanged.
C3_CloseIgnoredAfterOutcome ==
    [][\A i \in Insts :
        (TimerElapses(i) /\ (approved[i] \/ cancelled[i] \/ didFallback[i] \/ isAndroid))
        => /\ onCancelCount' = onCancelCount
           /\ UNCHANGED <<tasks, cleaned, res, destroyMemo>>]_vars

\* A close fired, approve arrived during its delay, and the delay elapsed
\* without a cancel.
C3_Witness ==
    \E i \in Insts :
        /\ approved[i] /\ ~cancelled[i] /\ ~didFallback[i] /\ ~isAndroid
        /\ timers[i].ignored = 1 /\ timers[i].asCancel = 0
        /\ onCancelCount[i] = 0

\* C4: two clicks on one instance never have their popups live at the same
\* time: the first click's popup is torn down before the second click opens
\* its own.
C4_OneLivePopupPerInstance ==
    \A c1, c2 \in DOMAIN clicks :
        (c1 < c2 /\ clicks[c1].inst = clicks[c2].inst
            /\ clicks[c1].popup # 0 /\ clicks[c2].popup # 0)
        => ~(res[clicks[c1].popup].open /\ res[clicks[c2].popup].open)

\* C5: once click() has run on the QR path, a QR component is rendered, a
\* native connection of the instance is open with its cancel registered, and
\* the instance has created no popup.
OwnedOfKind(i, kind) == {r \in DOMAIN res : res[r].owner = i /\ res[r].kind = kind}

C5_QRPathOpensConnection ==
    \A c \in DOMAIN clicks :
        venmo[clicks[c].inst]
        => /\ OwnedOfKind(clicks[c].inst, "qr") # {}
           /\ \E r \in OwnedOfKind(clicks[c].inst, "connection") : Registered(r)
           /\ OwnedOfKind(clicks[c].inst, "popup") = {}

\* C6: when web-switch detection fires in a session before any app-switch
\* detection, the web checkout it starts has isNativeFallback true and the
\* session opens no native connection at any later point.
WebSwitchCheckout(r) == res[r].kind = "checkout" /\ res[r].win

C6_NoConnectionAfterWebSwitch ==
    \A r \in DOMAIN res :
        (WebSwitchCheckout(r)
            /\ \A q \in 1..(r - 1) : ~(res[q].kind = "connection" /\ res[q].owner = res[r].owner))
        => /\ res[r].nativeFallback
           /\ \A q \in DOMAIN res :
                q > r => ~(res[q].kind = "connection" /\ res[q].owner = res[r].owner)

\* C7: a click whose path threw or whose branch rejected while it was pending
\* has had destroy invoked, waits for the destroy future, is rejected only
\* once that future has resolved, and rejects with the error that was raised.
C7_ClickFailureCleansUpThenRejects ==
    \A c \in DOMAIN clicks :
        LET k == clicks[c] IN
        /\ k.raised # NoErr
            => k.st \in {"failing", "rejected"} /\ k.err = k.raised /\ DestroyInvoked(k.inst)
        /\ k.st = "failing" => destroyMemo[k.inst] = "running" /\ k.raised # NoErr
        /\ k.st = "rejected" => destroyMemo[k.inst] = "done" /\ k.raised # NoErr

\* A detection branch rejected a pending click: the click is rejected with
\* that error, destroy has completed and the popup is torn down.
C7_Witness ==
    \E c \in DOMAIN clicks :
        /\ clicks[c].st = "rejected" /\ clicks[c].popup # 0
        /\ clicks[c].err = "E2"
        /\ destroyMemo[clicks[c].inst] = "done"
        /\ ~res[clicks[c].popup].open

\* C8: every rejection of the user onApprove handler is handed to the user
\* error handler with the rejection reason, destroy has been invoked by the
\* approve callback, and the callback's future never rejects: it waits for
\* destroy only, and is resolved once destroy has completed.
UnwrappedArgs(i) == SelectSeq(onErrorArgs[i], LAMBDA a : ~a.wrapped)

C8_ApproveRejectionGoesToOnError ==
    \A i \in Insts :
        /\ Len(UnwrappedArgs(i)) = Len(ap[i].reasons)
        /\ \A n \in DOMAIN ap[i].reasons : UnwrappedArgs(i)[n].v = ap[i].reasons[n]
        /\ ap[i].rejected = 0
        /\ ApproveCalls(i) > 0 => DestroyInvoked(i)
        /\ ap[i].wait > 0 => destroyMemo[i] = "running"
        /\ Len(ap[i].reasons) <= ap[i].wait + ap[i].resolved

\* The handler rejected with E2, onError received E2, destroy completed and
\* the approve callback's future resolved.
C8_Witness ==
    \E i \in Insts :
        /\ ap[i].reasons = <<"E2">>
        /\ onErrorArgs[i] = <<[wrapped |-> FALSE, v |-> "E2"]>>
        /\ ap[i].resolved = 1 /\ ap[i].handler = 0 /\ ap[i].wait = 0
        /\ destroyMemo[i] = "done"

\* C9: an initNative call that throws for want of a firebase config creates
\* no instance, opens no handle and leaves `clean`, its registries and every
\* handle as they were.
C9_InitThrowTouchesNothing ==
    [][initThrows' > initThrows
        => UNCHANGED <<clean, nInst, venmo, tasks, cleaned, res, destroyMemo, clicks>>]_vars

\* initNative threw while the prior session's popup is live and still queued
\* in the registry `clean` names.
C9_Witness ==
    /\ initThrows > 0 /\ clean # 0
    /\ \E r \in DOMAIN res :
        /\ res[r].kind = "popup" /\ res[r].open /\ res[r].runs = 0
        /\ \E n \in DOMAIN tasks[clean] : tasks[clean][n] = r

\* C10: a successful initNative call made while a prior registry exists
\* leaves every task of the prior registry run once, installs a fresh empty
\* registry, and leaves no handle of an earlier session live.
C10_InitTearsDownPriorSession ==
    [][(nInst' > nInst /\ clean # 0)
        => /\ \A n \in DOMAIN tasks[clean] : res'[tasks[clean][n]].runs = 1
           /\ tasks'[clean] = <<>> /\ cleaned'[clean]
           /\ clean' # clean /\ tasks'[clean'] = <<>> /\ ~cleaned'[clean']
           /\ \A r \in DOMAIN res' : ~res'[r].open]_vars

\* C11: in every reachable state at most one of approved, cancelled and
\* didFallback of an instance is true.
FlagsSet(i) ==
    (IF approved[i] THEN 1 ELSE 0) + (IF cancelled[i] THEN 1 ELSE 0)
        + (IF didFallback[i] THEN 1 ELSE 0)

C11_AtMostOneFlag == \A i \in Insts : FlagsSet(i) <= 1

\* C12: once the approve, cancel, transport-error or fallback callback of an
\* instance has fired, or a close has elapsed as a cancel, destroy has been
\* invoked for the instance. A checkout started without a window comes from
\* the fallback callback or from restart().
FallbackFired(i) ==
    \E r \in DOMAIN res : res[r].kind = "checkout" /\ ~res[r].win /\ res[r].owner = i

C12_DestroyOnEveryTerminalPath ==
    \A i \in Insts :
        (ApproveCalls(i) > 0 \/ cancelled[i] \/ onErrorArgs[i] # <<>> \/ timers[i].asCancel > 0
            \/ FallbackFired(i))
        => DestroyInvoked(i)

\* C12 amended: once the approve, cancel or transport-error callback of an
\* instance has fired, or a close has elapsed as a cancel, destroy has been
\* invoked for the instance; the fallback callback starts the web checkout
\* and does not invoke destroy.
C12_DestroyOnOutcomeCallbacks ==
    \A i \in Insts :
        (ApproveCalls(i) > 0 \/ cancelled[i] \/ onErrorArgs[i] # <<>> \/ timers[i].asCancel > 0)
        => DestroyInvoked(i)

\* The transport reported an error: onError got the wrapped message, destroy
\* was invoked and the popup of the instance is cancelled.
C12_Witness ==
    \E i \in Insts :
        /\ onErrorArgs[i] # <<>> /\ onErrorArgs[i][1].wrapped
        /\ ~approved[i] /\ ~cancelled[i] /\ onCancelCount[i] = 0
        /\ DestroyInvoked(i)
        /\ \E r \in DOMAIN res : res[r].kind = "popup" /\ res[r].owner = i /\ ~res[r].open

\* C13: once destroy() of an instance has completed, every handle the
\* instance opened is released: popup and connection cancelled, checkout
\* instance closed, QR component closed.
C13_DestroyReleasesEverything ==
    \A i \in Insts :
        destroyMemo[i] = "done" => \A r \in DOMAIN res : res[r].owner = i => ~res[r].open

\* C14: every native popup and every native connection is registered in the
\* step that creates it: in every state it names the registry that was
\* current at its creation, and while it is open its cancel is queued in that
\* registry exactly once.
IsConnectionHandle(r) == res[r].kind \in {"popup", "connection"}
QueuedAt(r, k) == {n \in DOMAIN tasks[k] : tasks[k][n] = r}

C14_HandlesRegisteredAtCreation ==
    \A r \in DOMAIN res :
        IsConnectionHandle(r)
        => /\ Registered(r)
           /\ res[r].open => Cardinality(QueuedAt(r, res[r].reg)) = 1

\* App-switch detection opened a connection while the popup is open: both
\* handles are open and queued in the current registry.
C14_Witness ==
    \E p, q \in DOMAIN res :
        /\ res[p].kind = "popup" /\ res[q].kind = "connection"
        /\ res[p].owner = res[q].owner
        /\ res[p].open /\ res[q].open
        /\ QueuedAt(p, clean) # {} /\ QueuedAt(q, clean) # {}

\* C15: the approve, cancel and transport-error callbacks invoke the user
\* handler and destroy in the step in which they fire, and a future of theirs
\* resolves only once its handler's promise has resolved and destroy has
\* completed: either the handler resolves while destroy is done, or destroy
\* completes and resolves exactly the futures whose handler had resolved.
CallbackKinds == {"approve", "cancel", "error"}
Fut(i, k) == IF k = "approve" THEN ap[i] ELSE cb[i][k]
FutCalls(i, k) == Fut(i, k).handler + Fut(i, k).wait + Fut(i, k).resolved + Fut(i, k).rejected
WrappedArgs(i) == SelectSeq(onErrorArgs[i], LAMBDA a : a.wrapped)

C15_FutureWaitsForHandlerAndCleanup ==
    /\ [](\A i \in Insts :
            /\ \A k \in CallbackKinds :
                /\ FutCalls(i, k) > 0 => DestroyInvoked(i)
                /\ Fut(i, k).wait > 0 => destroyMemo[i] = "running"
                /\ Fut(i, k).resolved > 0 => destroyMemo[i] = "done"
            /\ FutCalls(i, "cancel") + timers[i].asCancel = onCancelCount[i]
            /\ FutCalls(i, "error") = Len(WrappedArgs(i)))
    /\ [][\A i \in Insts : \A k \in CallbackKinds :
            /\ FutCalls(i, k)' > FutCalls(i, k)
                => /\ Fut(i, k).handler' = Fut(i, k).handler + 1
                   /\ DestroyInvoked(i)'
            /\ Fut(i, k).resolved' > Fut(i, k).resolved
                => \/ /\ destroyMemo[i] = "done"
                      /\ Fut(i, k).handler' = Fut(i, k).handler - 1
                      /\ Fut(i, k).resolved' = Fut(i, k).resolved + 1
                      /\ Fut(i, k).wait' = Fut(i, k).wait
                   \/ /\ destroyMemo[i] = "running" /\ destroyMemo'[i] = "done"
                      /\ Fut(i, k).handler' = Fut(i, k).handler
                      /\ Fut(i, k).resolved' = Fut(i, k).resolved + Fut(i, k).wait
                      /\ Fut(i, k).wait' = 0]_vars

\* A cancel message arrived, the user cancel handler's promise resolved and
\* destroy completed: the cancel callback's future is resolved.
C15_Witness ==
    \E i \in Insts :
        /\ cancelled[i] /\ onCancelCount[i] = 1
        /\ cb[i].cancel.resolved = 1 /\ cb[i].cancel.handler = 0 /\ cb[i].cancel.wait = 0
        /\ destroyMemo[i] = "done"

\* C16: a shipping-change call reports resolved = true when no handler is
\* supplied; with a handler it reports the outcome of the action the handler
\* invoked last before its promise resolved (resolve: true, reject: false),
\* and true when it had invoked neither.
C16_ShippingChangeReportsLastAction ==
    \A c \in DOMAIN ship.calls :
        LET k == ship.calls[c] IN
        /\ ~ship.handler => k.st = "reported" /\ k.report = TRUE
        /\ (ship.handler /\ k.st = "reported")
            => k.report = (IF k.invoked = <<>> THEN TRUE
                           ELSE k.invoked[Len(k.invoked)] = "resolve")

\* A handler invoked resolve and then reject before its promise resolved and
\* resolve once more after it: the call reported false.
C16_Witness ==
    \E c \in DOMAIN ship.calls :
        /\ ship.handler /\ ship.calls[c].st = "reported"
        /\ ship.calls[c].invoked = <<"resolve", "reject">>
        /\ ship.calls[c].late = <<"resolve">>
        /\ ship.calls[c].report = FALSE

\* C17: once the transport-error callback of an instance has fired, a close
\* grace delay that elapses (whether the close arrived before or after the
\* error) does not invoke the user cancel handler, so the user error handler
\* and the user cancel handler are never both invoked by error and close.
C17_ErrorIsTerminalForClose ==
    [][\A i \in Insts :
        (TimerElapses(i) /\ WrappedArgs(i) # <<>>)
        => onCancelCount'[i] = onCancelCount[i]]_vars

\* C18: flow instances are isolated: a teardown action is only ever queued in
\* the registry of the instance that owns its handle, and the step in which
\* destroy of an instance is first invoked releases no handle registered in
\* another instance's registry.
C18_InstancesIsolated ==
    /\ [](\A r \in DOMAIN res : Registered(r) => res[r].reg = res[r].owner)
    /\ [][\A i \in Insts :
            (~DestroyInvoked(i) /\ DestroyInvoked(i)')
            => \A r \in DOMAIN res :
                (res[r].open /\ ~res'[r].open) => res[r].reg = i]_vars

\* C19: whatever cancel messages and close events an instance receives, the
\* user cancel handler is invoked at most once for it.
C19_CancelHandlerAtMostOnce == \A i \in Insts : onCancelCount[i] <= 1

\* C20: on the popup path an outcome settles the click future without any
\* detection: once an approve, cancel or error callback has fired or a close
\* has elapsed as a cancel, no detection has fired for the instance, and
\* nothing the callbacks started is still running (handlers, destroy, grace
\* delays), the click future is no longer pending.
OutcomeReached(i) ==
    \/ \E k \in CallbackKinds : FutCalls(i, k) > 0
    \/ timers[i].asCancel > 0

NoDetection(i) ==
    /\ \A r \in DOMAIN res :
        res[r].owner = i => ~(res[r].kind = "connection" \/ WebSwitchCheckout(r))
    /\ \A c \in DOMAIN clicks : clicks[c].inst = i => clicks[c].br = <<>>

CallbacksQuiet(i) ==
    /\ destroyMemo[i] = "done"
    /\ timers[i].pending = 0
    /\ \A k \in CallbackKinds : Fut(i, k).handler = 0 /\ Fut(i, k).wait = 0

C20_OutcomeSettlesClick ==
    \A c \in DOMAIN clicks :
        LET i == clicks[c].inst IN
        (clicks[c].popup # 0 /\ OutcomeReached(i) /\ NoDetection(i) /\ CallbacksQuiet(i))
        => clicks[c].st # "pending"
====
